---- MODULE Spec2Model ----
(***************************************************************************)
(* A model of src/js/kdTree.js: the in-place k-d tree over a flat typed    *)
(* array (constructor kdTree / buildTree), its nearest-neighbour query     *)
(* (kdTree.nearest / nearestSearch) and the BinaryHeap it keeps its best   *)
(* candidates in.                                                          *)
(*                                                                         *)
(* JavaScript arrays are 0-based and TLA+ sequences 1-based: every index   *)
(* below is the JavaScript index, and slot i of an array a is a[i + 1].    *)
(* null is the node id 0; a thrown exception is recorded in "thrown".      *)
(***************************************************************************)
EXTENDS Integers, Sequences, FiniteSets

\* ------------------------------------------------------------------ bounds

\* most points in a point buffer
MaxPoints == 4
\* coordinates of buffer points are 0..MaxCoord
MaxCoord == 1
\* coordinates of query points are 0..MaxQuery
MaxQuery == 2
\* maxNodes (k) ranges over -1..MaxK
MaxK == 5
\* a supplied maxDistance ranges over 0..MaxRadius
MaxRadius == 2
\* most entries of the free-standing heap
MaxHeap == 4
\* payloads of the free-standing heap's entries are 0..MaxPayload
MaxPayload == 1
\* distances of the free-standing heap's entries are 0..MaxScore
MaxScore == 2

\* the dimensionalities (eleSize) the model enumerates
EleSizes == {1, 2}

VARIABLES
  eleSize,     \* kdTree's eleSize argument
  input,       \* the points buffer as it was handed to the constructor
  points,      \* the points buffer (a typed array, reordered in place)
  nodes,       \* the Node objects, in creation order; a node's id is its index
  root,        \* this.root: a node id, or 0 for null
  maxDepth,    \* the closure variable maxDepth
  amountOfLeafDepthNodes,  \* the closure variable amountOfLeafDepthNodes
  phase,       \* "new": before the constructor ran; "built": after it
  call,        \* the last call of nearest: its arguments and how it ended
  heap         \* a free-standing BinaryHeap: [content, thrown]

vars == <<eleSize, input, points, nodes, root, maxDepth,
          amountOfLeafDepthNodes, phase, call, heap>>

\* ------------------------------------------------------------- BinaryHeap

\* the scoring function nearest constructs its heap with; an entry is
\* [node, distance], here <<node, distance>>
scoreFunction(e) == -e[2]

\* bubbleUp's parentN
parentIndex(n) == ((n + 1) \div 2) - 1

RECURSIVE bubbleUp(_, _)
bubbleUp(content, n) ==
  IF n > 0
  THEN LET element == content[n + 1]
           parentN == parentIndex(n)
           parent  == content[parentN + 1]
       IN IF scoreFunction(element) < scoreFunction(parent)
          THEN bubbleUp([content EXCEPT ![parentN + 1] = element,
                                        ![n + 1] = parent], parentN)
          ELSE content
  ELSE content

RECURSIVE sinkDown(_, _)
sinkDown(content, n) ==
  LET length    == Len(content)
      element   == content[n + 1]
      elemScore == scoreFunction(element)
      child2N   == (n + 1) * 2
      child1N   == child2N - 1
      child1Score == scoreFunction(content[child1N + 1])
      child2Score == scoreFunction(content[child2N + 1])
      swap1 == IF child1N < length /\ child1Score < elemScore
               THEN child1N ELSE -1
      swap  == IF child2N < length
                  /\ child2Score < (IF swap1 = -1 THEN elemScore
                                                  ELSE child1Score)
               THEN child2N ELSE swap1
  IN IF swap # -1
     THEN sinkDown([content EXCEPT ![n + 1] = content[swap + 1],
                                   ![swap + 1] = element], swap)
     ELSE content

push(content, element) ==
  bubbleUp(Append(content, element), Len(content))

\* content.pop(): the array without its last element
arrayPop(content) == SubSeq(content, 1, Len(content) - 1)

\* a mutant of pop: the last entry takes the root's slot and is left there
popWithoutSink(content) ==
  IF Len(content) = 0 THEN content
  ELSE LET end  == content[Len(content)]
           rest == arrayPop(content)
       IN IF Len(rest) > 0 THEN [rest EXCEPT ![1] = end] ELSE rest

\* pop: the content it leaves; on an empty heap nothing changes
pop(content) ==
  IF Len(content) = 0 THEN content
  ELSE LET end  == content[Len(content)]
           rest == arrayPop(content)
       IN IF Len(rest) > 0
          THEN sinkDown([rest EXCEPT ![1] = end], 0)
          ELSE rest

\* pop's return value (content[0]) on a non-empty heap
popResult(content) == content[1]

peek(content) == content[1]

size(content) == Len(content)

\* remove's linear scan: the first index holding the entry, or -1
indexOf(content, node) ==
  IF \E i \in 1..Len(content) : content[i] = node
  THEN (CHOOSE i \in 1..Len(content) :
          /\ content[i] = node
          /\ \A j \in 1..(i - 1) : content[j] # node) - 1
  ELSE -1

\* remove: [content, thrown]
remove(content, node) ==
  LET len == Len(content)
      i   == indexOf(content, node)
  IN IF i = -1
     THEN [content |-> content, thrown |-> "Node not found."]
     ELSE LET end  == content[len]
              rest == arrayPop(content)
          IN IF i # len - 1
             THEN LET put == [rest EXCEPT ![i + 1] = end]
                  IN [content |-> IF scoreFunction(end) < scoreFunction(node)
                                  THEN bubbleUp(put, i)
                                  ELSE sinkDown(put, i),
                      thrown |-> "none"]
             ELSE [content |-> rest, thrown |-> "none"]

\* ------------------------------------------------------- typed array views

\* A typed array over the shared buffer: the flat offset of its first element
\* and its length.  subarray never copies.
View(off, len) == [off |-> off, len |-> len]

Min(a, b) == IF a < b THEN a ELSE b

Max(a, b) == IF a > b THEN a ELSE b

\* TypedArray.prototype.subarray(begin, end) for begin, end >= 0: both are
\* clamped to the length, and an end before the begin gives an empty view
subarray(w, begin, end) ==
  LET b == Min(begin, w.len)
      e == Min(end, w.len)
  IN View(w.off + b, Max(e - b, 0))

getPointSet(w, pos) == subarray(w, pos * eleSize, pos * eleSize + eleSize)

\* the elements a view shows of a buffer
read(buf, w) == [i \in 1..w.len |-> buf[w.off + i]]

\* ---------------------------------------------------------------- sorting

\* the sequence without the first occurrence of v
RECURSIVE removeOne(_, _)
removeOne(pts, v) ==
  IF pts = <<>> THEN <<>>
  ELSE IF Head(pts) = v THEN Tail(pts)
  ELSE <<Head(pts)>> \o removeOne(Tail(pts), v)

\* every arrangement of pts in ascending order of coordinate dim: a sort
\* that need not be stable may leave equal keys in any order
RECURSIVE sortedOrders(_, _)
sortedOrders(pts, dim) ==
  IF pts = <<>> THEN {<<>>}
  ELSE LET least  == CHOOSE k \in {pts[i][dim + 1] : i \in 1..Len(pts)} :
                       \A j \in 1..Len(pts) : k <= pts[j][dim + 1]
           firsts == {pts[i] : i \in {j \in 1..Len(pts) :
                                        pts[j][dim + 1] = least}}
       IN UNION {{<<v>> \o rest : rest \in sortedOrders(removeOne(pts, v), dim)}
                 : v \in firsts}

\* quickSortIP(points, eleSize, dim): the buffers it may leave, the window's
\* whole points reordered in place (elements after the last whole point of a
\* window that is no multiple of eleSize stay where they are)
quickSortIP(buf, w, dim) ==
  LET n   == w.len \div eleSize
      pts == [i \in 1..n |-> read(buf, getPointSet(w, i - 1))]
  IN {[i \in 1..Len(buf) |->
         IF i > w.off /\ i <= w.off + n * eleSize
         THEN order[((i - w.off - 1) \div eleSize) + 1]
                   [((i - w.off - 1) % eleSize) + 1]
         ELSE buf[i]] : order \in sortedOrders(pts, dim)}

\* ------------------------------------------------------------ the builder

\* new Node(obj, depth, parent, pos)
Node(obj, depth, parent, pos) ==
  [obj |-> obj, left |-> 0, right |-> 0, parent |-> parent,
   depth |-> depth, pos |-> pos]

\* a mutant of splitDim: every level splits along the first coordinate
splitDimFirst(depth) == 0

\* buildTree's dim
splitDim(depth) == depth % eleSize

\* buildTree's median for a window of len elements:
\* Math.floor((len / eleSize) / 2)
medianOf(len) == len \div (2 * eleSize)

\* a mutant of rightPos: the median's own slot is not skipped
rightPosNoSkip(pos, median) == pos + median

\* the pos handed to the right subtree
rightPos(pos, median) == pos + median + 1

\* a mutant of leafCountAfter: the counter is never advanced
leafCountKept(count) == count

\* amountOfLeafDepthNodes++
leafCountAfter(count) == count + 1

\* buildTree(points, depth, parent, pos) on the builder's state
\* st = [points, nodes, maxDepth, leaves]: the set of [st, node] it may
\* end in, node being the id it returns (0 for null)
RECURSIVE buildTree(_, _, _, _, _)
buildTree(st, w, depth, parent, pos) ==
  LET dim == splitDim(depth)
      s1  == [st EXCEPT !.maxDepth = IF depth > @ THEN depth ELSE @]
  IN IF w.len = 0 THEN {[st |-> s1, node |-> 0]}
     ELSE IF w.len = eleSize
     THEN {[st |-> [s1 EXCEPT !.leaves = leafCountAfter(@),
                              !.nodes = Append(@, Node(getPointSet(w, 0),
                                                       depth, parent, pos))],
            node |-> Len(s1.nodes) + 1]}
     ELSE LET median == medianOf(w.len)
              id     == Len(s1.nodes) + 1
              node   == Node(getPointSet(w, median), depth, parent,
                             median + pos)
              lw     == subarray(w, 0, median * eleSize)
              rw     == subarray(w, (median + 1) * eleSize, w.len)
          IN UNION {UNION {
               {[st |-> [r.st EXCEPT !.nodes[id].right = r.node], node |-> id]
                : r \in buildTree([l.st EXCEPT !.nodes[id].left = l.node],
                                  rw, depth + 1, id, rightPos(pos, median))}
               : l \in buildTree([s1 EXCEPT !.points = sorted,
                                            !.nodes = Append(@, node)],
                                 lw, depth + 1, id, pos)}
               : sorted \in quickSortIP(s1.points, w, dim)}

\* ------------------------------------------------------------- the search

\* the metric the caller supplies: the squared Euclidean distance
metric(a, b) ==
  LET RECURSIVE sum(_)
      sum(i) == IF i = 0 THEN 0
                ELSE (a[i] - b[i]) * (a[i] - b[i]) + sum(i - 1)
  IN sum(eleSize)

Abs(x) == IF x < 0 THEN -x ELSE x

\* the coordinates of a node: its obj view read from the buffer
coords(node) == read(points, nodes[node].obj)

\* "bestNodes.size() < maxNodes || distance < bestNodes.peek()[1]" throws a
\* TypeError when it comes to peek at an empty heap
peekThrows(content, maxNodes) ==
  /\ ~(size(content) < maxNodes)
  /\ size(content) = 0

\* "bestNodes.size() < maxNodes || distance < bestNodes.peek()[1]"
roomOrNearer(content, maxNodes, distance) ==
  \/ size(content) < maxNodes
  \/ distance < peek(content)[2]

\* a mutant of searchesOther: the other child is left out once the heap is full
searchesOtherWithRoom(content, maxNodes, linearDistance) ==
  size(content) < maxNodes

\* whether nearestSearch goes on into the other child
searchesOther(content, maxNodes, linearDistance) ==
  roomOrNearer(content, maxNodes, Abs(linearDistance))

\* saveNode(node, distance): the content it leaves
saveNode(content, maxNodes, node, distance) ==
  LET pushed == push(content, <<node, distance>>)
  IN IF size(pushed) > maxNodes THEN pop(pushed) ELSE pushed

\* the search state with a TypeError thrown
throw(s) == [s EXCEPT !.thrown = "TypeError"]

\* the search state after saveNode
saved(s, maxNodes, node, distance) ==
  [s EXCEPT !.content = saveNode(@, maxNodes, node, distance),
            !.pushes = @ + 1]

\* the linearPoint of a node: the node's coordinates, the query's in dimension
linearPointOf(point, obj, dimension) ==
  [i \in 1..eleSize |-> IF i - 1 = dimension THEN point[i] ELSE obj[i]]

\* the child nearestSearch descends into first
bestChildOf(n, point, obj, dimension) ==
  IF n.right = 0 THEN n.left
  ELSE IF n.left = 0 THEN n.right
  ELSE IF point[dimension + 1] < obj[dimension + 1] THEN n.left
  ELSE n.right

\* nearestSearch(node) on the search state
\* s = [content, thrown, visited, metricCalls, pushes], for the closure's
\* point and maxNodes; a thrown exception ends every frame
RECURSIVE nearestSearch(_, _, _, _)
nearestSearch(s, node, point, maxNodes) ==
  IF s.thrown # "none" THEN s
  ELSE IF node = 0 THEN throw(s)
  ELSE
    LET n              == nodes[node]
        obj            == coords(node)
        dimension      == n.depth % eleSize
        ownDistance    == metric(point, obj)
        linearDistance == metric(linearPointOf(point, obj, dimension), obj)
        s1 == [s EXCEPT !.visited = Append(@, node), !.metricCalls = @ + 2]
    IN IF n.right = 0 /\ n.left = 0
       THEN IF peekThrows(s1.content, maxNodes) THEN throw(s1)
            ELSE IF roomOrNearer(s1.content, maxNodes, ownDistance)
            THEN saved(s1, maxNodes, node, ownDistance)
            ELSE s1
       ELSE
         LET bestChild  == bestChildOf(n, point, obj, dimension)
             otherChild == IF bestChild = n.left THEN n.right ELSE n.left
             s2 == nearestSearch(s1, bestChild, point, maxNodes)
             s3 == IF roomOrNearer(s2.content, maxNodes, ownDistance)
                   THEN saved(s2, maxNodes, node, ownDistance)
                   ELSE s2
         IN IF s2.thrown # "none" THEN s2
            ELSE IF peekThrows(s2.content, maxNodes) THEN throw(s2)
            ELSE IF peekThrows(s3.content, maxNodes) THEN throw(s3)
            ELSE IF searchesOther(s3.content, maxNodes, linearDistance)
                    /\ otherChild # 0
            THEN nearestSearch(s3, otherChild, point, maxNodes)
            ELSE s3

\* maxDistance: an argument left out is undefined
Undefined == [given |-> FALSE, value |-> 0]

Supplied(d) == [given |-> TRUE, value |-> d]

\* "if (maxDistance)": undefined and 0 are falsy
truthy(maxDistance) == maxDistance.given /\ maxDistance.value # 0

\* the placeholders: [null, maxDistance] pushed maxNodes times
RECURSIVE seeded(_, _, _)
seeded(content, i, maxDistance) ==
  IF i <= 0 THEN content
  ELSE seeded(push(content, <<0, maxDistance.value>>), i - 1, maxDistance)

\* the result loop: the entries of slots 0..maxNodes-1 whose node is truthy
RECURSIVE collected(_, _)
collected(content, i) ==
  IF i <= 0 THEN <<>>
  ELSE collected(content, i - 1)
         \o (IF content[i][1] # 0 THEN <<content[i]>> ELSE <<>>)

\* nearest(point, maxNodes, maxDistance): how the call ends
nearest(point, maxNodes, maxDistance) ==
  LET bestNodes == IF truthy(maxDistance)
                   THEN seeded(<<>>, maxNodes, maxDistance)
                   ELSE <<>>
      s == nearestSearch([content |-> bestNodes, thrown |-> "none",
                          visited |-> <<>>, metricCalls |-> 0, pushes |-> 0],
                         root, point, maxNodes)
      \* bestNodes.content[i][0] of a slot past the end is a TypeError
      short == maxNodes > Len(s.content)
  IN [op |-> "nearest", point |-> point, maxNodes |-> maxNodes,
      maxDistance |-> maxDistance,
      thrown |-> IF s.thrown # "none" THEN s.thrown
                 ELSE IF short THEN "TypeError" ELSE "none",
      result |-> IF s.thrown # "none" \/ short THEN <<>>
                 ELSE collected(s.content, maxNodes),
      visited |-> s.visited, metricCalls |-> s.metricCalls,
      pushes |-> s.pushes]

\* ------------------------------------------------------------ the machine

NoCall == [op |-> "none"]

EmptyHeap == [content |-> <<>>, thrown |-> "none", op |-> "new"]

\* every flat buffer the sizes in lens allow
Buffers(lens) == UNION {[1..n -> 0..MaxCoord] : n \in lens}

InitWith(e, buf) ==
  /\ eleSize = e
  /\ input = buf
  /\ points = buf
  /\ nodes = <<>>
  /\ root = 0
  /\ maxDepth = 0
  /\ amountOfLeafDepthNodes = 0
  /\ phase = "new"
  /\ call = NoCall
  /\ heap = EmptyHeap

\* any buffer of at most MaxPoints points, whole or not
InitBuild ==
  \E e \in EleSizes : \E buf \in Buffers(0..(MaxPoints * e)) : InitWith(e, buf)

\* new kdTree(points, metric, eleSize)
Build ==
  /\ phase = "new"
  /\ \E r \in buildTree([points |-> points, nodes |-> <<>>, maxDepth |-> 0,
                         leaves |-> 0],
                        View(0, Len(points)), 0, 0, 0) :
       /\ points' = r.st.points
       /\ nodes' = r.st.nodes
       /\ root' = r.node
       /\ maxDepth' = r.st.maxDepth
       /\ amountOfLeafDepthNodes' = r.st.leaves
  /\ phase' = "built"
  /\ UNCHANGED <<eleSize, input, call, heap>>

SpecBuild == InitBuild /\ [][Build]_vars

\* the points of a whole buffer, in order
pointsOf(e, buf) ==
  [i \in 1..(Len(buf) \div e) |-> [c \in 1..e |-> buf[(i - 1) * e + c]]]

\* lexicographic order on points of equal length
RECURSIVE lexLeq(_, _)
lexLeq(a, b) ==
  IF a = <<>> THEN TRUE
  ELSE IF Head(a) # Head(b) THEN Head(a) < Head(b)
  ELSE lexLeq(Tail(a), Tail(b))

\* One buffer for every multiset of at most MaxPoints points, its points in
\* lexicographic order.  quickSortIP ranges over every ascending arrangement
\* of a window, so what Build may leave depends on the multiset alone.
InitQuery ==
  \E e \in EleSizes :
    \E buf \in Buffers({n * e : n \in 0..MaxPoints}) :
      /\ \A i \in 1..((Len(buf) \div e) - 1) :
           lexLeq(pointsOf(e, buf)[i], pointsOf(e, buf)[i + 1])
      /\ InitWith(e, buf)

QueryPoints == [1..eleSize -> 0..MaxQuery]

\* tree.nearest(point, maxNodes)
Nearest ==
  /\ phase = "built"
  /\ call.op = "none"
  /\ \E point \in QueryPoints : \E maxNodes \in (-1)..MaxK :
       call' = nearest(point, maxNodes, Undefined)
  /\ UNCHANGED <<eleSize, input, points, nodes, root, maxDepth,
                 amountOfLeafDepthNodes, phase, heap>>

\* tree.nearest(point, maxNodes, maxDistance)
NearestWithin ==
  /\ phase = "built"
  /\ call.op = "none"
  /\ \E point \in QueryPoints : \E maxNodes \in (-1)..MaxK :
       \E d \in 0..MaxRadius :
         call' = nearest(point, maxNodes, Supplied(d))
  /\ UNCHANGED <<eleSize, input, points, nodes, root, maxDepth,
                 amountOfLeafDepthNodes, phase, heap>>

\* the caller is done with what nearest returned or threw
Return ==
  /\ call.op = "nearest"
  /\ call' = NoCall
  /\ UNCHANGED <<eleSize, input, points, nodes, root, maxDepth,
                 amountOfLeafDepthNodes, phase, heap>>

SpecNearest == InitQuery /\ [][Build \/ Nearest \/ Return]_vars

SpecWithin == InitQuery /\ [][Build \/ NearestWithin \/ Return]_vars


\* ------------------------------------------------- the free-standing heap

\* the entries pushed: [payload, distance] pairs, payload 0 being null
Entries == (0..MaxPayload) \X (0..MaxScore)

InitHeap == InitWith(1, <<>>)

\* heap.push(element)
Push ==
  /\ Len(heap.content) < MaxHeap
  /\ \E e \in Entries :
       heap' = [content |-> push(heap.content, e), thrown |-> "none",
                op |-> "push"]
  /\ UNCHANGED <<eleSize, input, points, nodes, root, maxDepth,
                 amountOfLeafDepthNodes, phase, call>>

\* heap.pop()
Pop ==
  /\ heap' = [content |-> pop(heap.content), thrown |-> "none", op |-> "pop"]
  /\ UNCHANGED <<eleSize, input, points, nodes, root, maxDepth,
                 amountOfLeafDepthNodes, phase, call>>

\* heap.remove(node)
Remove ==
  /\ \E e \in Entries :
       heap' = [content |-> remove(heap.content, e).content,
                thrown |-> remove(heap.content, e).thrown, op |-> "remove"]
  /\ UNCHANGED <<eleSize, input, points, nodes, root, maxDepth,
                 amountOfLeafDepthNodes, phase, call>>

SpecHeap == InitHeap /\ [][Push \/ Pop \/ Remove]_vars

\* --------------------------------------------------------------- the claims

\* the number of points of the buffer handed in
N == Len(input) \div eleSize

WellFormed == Len(input) % eleSize = 0

\* the ids of the nodes below (and including) a node; 0 has none
RECURSIVE subtree(_)
subtree(node) ==
  IF node = 0 THEN {}
  ELSE {node} \cup subtree(nodes[node].left) \cup subtree(nodes[node].right)

\* a sequence of numbers in ascending order
RECURSIVE ascending(_)
ascending(seq) ==
  IF seq = <<>> THEN <<>>
  ELSE LET least == CHOOSE i \in 1..Len(seq) :
                      \A j \in 1..Len(seq) : seq[i] <= seq[j]
       IN <<seq[least]>>
            \o ascending([k \in 1..(Len(seq) - 1) |->
                            IF k < least THEN seq[k] ELSE seq[k + 1]])

\* what a linear scan finds: the k smallest distances from point to the
\* points handed to the constructor
scanned(point, k) ==
  SubSeq(ascending([i \in 1..N |->
                      metric(point, pointsOf(eleSize, input)[i])]), 1, k)

\* the true distances of the nodes a call returned, ascending
returned == ascending([i \in 1..Len(call.result) |->
                         metric(call.point, coords(call.result[i][1]))])

Called == call.op = "nearest"

\* C1: a call of nearest without maxDistance, with 1 <= k <= N, returns k
\* distinct nodes, and their distances are the k smallest distances from the
\* query to the N points, as multisets.
C1_KNearest ==
  (Called /\ N >= 1 /\ call.maxNodes >= 1 /\ call.maxNodes <= N) =>
    /\ call.thrown = "none"
    /\ Len(call.result) = call.maxNodes
    /\ \A i, j \in 1..Len(call.result) :
         i # j => call.result[i][1] # call.result[j][1]
    /\ \A i \in 1..Len(call.result) : call.result[i][1] \in 1..Len(nodes)
    /\ returned = scanned(call.point, call.maxNodes)

\* C1's case: a query in the plane for 2 of 4 points that left part of the
\* tree unvisited
C1_Witness ==
  /\ Called /\ eleSize = 2 /\ N = 4 /\ call.maxNodes = 2
  /\ call.thrown = "none"
  /\ Len(call.visited) < Len(nodes)
  /\ Len(call.result) = 2

\* C2: a call of nearest without maxDistance on N >= 1 points returns
\* normally, with exactly min(k, N) results, for every k >= 1.
C2_MinKN ==
  (Called /\ N >= 1 /\ call.maxNodes >= 1) =>
    /\ call.thrown = "none"
    /\ Len(call.result) = Min(call.maxNodes, N)

\* the points within d of the query that every linear scan for k points
\* returns: fewer than k points are as near or nearer
surelyNearest(i, point, k) ==
  LET dist(j) == metric(point, pointsOf(eleSize, points)[j])
  IN Cardinality({j \in 1..N : j # i /\ dist(j) <= dist(i)}) < k

\* C3: a call of nearest with maxDistance d >= 0 and k >= 1 on a tree of
\* N >= 1 points returns no pair farther than d and no placeholder, and
\* returns every point that is within d and among the k nearest.
C3_Radius ==
  (Called /\ call.maxDistance.given /\ call.maxNodes >= 1 /\ N >= 1) =>
    /\ call.thrown = "none"
    /\ \A i \in 1..Len(call.result) :
         /\ call.result[i][1] # 0
         /\ call.result[i][2] <= call.maxDistance.value
    /\ \A n \in 1..Len(nodes) :
         (/\ metric(call.point, coords(n)) <= call.maxDistance.value
          /\ surelyNearest(nodes[n].pos + 1, call.point, call.maxNodes))
         => \E i \in 1..Len(call.result) : call.result[i][1] = n

\* C4: a call of nearest with k >= 1 on the tree of an empty buffer returns
\* the empty list and throws nothing.
C4_EmptyTree ==
  (Called /\ Len(input) = 0 /\ call.maxNodes >= 1) =>
    /\ call.thrown = "none"
    /\ call.result = <<>>

\* C5: a call of nearest with k < 1 is rejected before the traversal: it
\* fails, no node was visited, the metric was not evaluated, nothing was
\* pushed.
C5_RejectsK ==
  (Called /\ call.maxNodes < 1) =>
    /\ call.thrown # "none"
    /\ call.visited = <<>>
    /\ call.metricCalls = 0
    /\ call.pushes = 0

\* C6: a buffer whose length is no multiple of eleSize is rejected: the
\* constructor never completes on it, no node is created, the buffer is not
\* reordered.
C6_RejectsLength ==
  ~WellFormed => (phase = "new" /\ nodes = <<>> /\ points = input)

\* C7: in a built tree, below every node with a child, along the node's axis
\* (depth mod eleSize), the left subtree's points are <= the node's and the
\* right subtree's are >= it.
C7_Partition ==
  (phase = "built" /\ WellFormed) =>
    \A n \in 1..Len(nodes) :
      LET a == (nodes[n].depth % eleSize) + 1
      IN /\ \A m \in subtree(nodes[n].left) : coords(m)[a] <= coords(n)[a]
         /\ \A m \in subtree(nodes[n].right) : coords(m)[a] >= coords(n)[a]

\* C7's case: a tree in the plane where a node at depth 1 has a left child
\* that lies right of it along the root's axis: the left window was sorted
\* again, along the second axis, after the root split it off
C7_Witness ==
  /\ phase = "built" /\ eleSize = 2 /\ N = 4
  /\ \E n \in 1..Len(nodes) :
       /\ nodes[n].depth = 1
       /\ nodes[n].left # 0
       /\ coords(nodes[n].left)[1] > coords(n)[1]
       /\ coords(nodes[n].left)[2] < coords(n)[2]

\* C8, as claimed: every node's pos is the position its point had in the
\* buffer as handed in, before the build reordered it.
C8_OriginalPosition ==
  (phase = "built" /\ WellFormed) =>
    \A n \in 1..Len(nodes) :
      pointsOf(eleSize, input)[nodes[n].pos + 1] = coords(n)

\* C8, amended: every node's pos is the position its point has in the buffer
\* as the build left it: the node's obj is the view of point pos, and the
\* nodes' pos are the N positions, each once.
C8_FinalPosition ==
  (phase = "built" /\ WellFormed) =>
    /\ \A n \in 1..Len(nodes) :
         /\ nodes[n].obj = View(nodes[n].pos * eleSize, eleSize)
         /\ pointsOf(eleSize, points)[nodes[n].pos + 1] = coords(n)
    /\ {nodes[n].pos : n \in 1..Len(nodes)} = 0..(N - 1)

\* C8's case: a build that reordered a buffer of 4 points in the plane
C8_Witness ==
  /\ phase = "built" /\ eleSize = 2 /\ N = 4
  /\ points # input
  /\ \E n \in 1..Len(nodes) :
       pointsOf(eleSize, input)[nodes[n].pos + 1] # coords(n)

\* C9: the tree of a whole buffer of N points has N nodes, one for each
\* position of the buffer; amountOfLeafDepthNodes is the number of nodes
\* without children, and is at least 1 when N >= 1.
C9_Counts ==
  (phase = "built" /\ WellFormed) =>
    /\ Len(nodes) = N
    /\ subtree(root) = 1..N
    /\ \A n, m \in 1..Len(nodes) : n # m => nodes[n].obj # nodes[m].obj
    /\ amountOfLeafDepthNodes =
         Cardinality({n \in 1..Len(nodes) :
                        nodes[n].left = 0 /\ nodes[n].right = 0})
    /\ (N >= 1 => amountOfLeafDepthNodes >= 1)

\* C9's case: a tree of 4 points, two of its nodes leaves and two not
C9_Witness ==
  /\ phase = "built" /\ WellFormed /\ N = 4
  /\ amountOfLeafDepthNodes = 2
  /\ Len(nodes) = 4

\* C10: the heap's content is a min-heap under the scoring function: every
\* slot n >= 1 scores no less than slot floor((n-1)/2); so what peek and pop
\* return scores least among the entries present.
C10_HeapOrder ==
  /\ \A n \in 1..(Len(heap.content) - 1) :
       scoreFunction(heap.content[((n - 1) \div 2) + 1])
         <= scoreFunction(heap.content[n + 1])
  /\ Len(heap.content) > 0 =>
       \A i \in 1..Len(heap.content) :
         /\ scoreFunction(peek(heap.content))
              <= scoreFunction(heap.content[i])
         /\ scoreFunction(popResult(heap.content))
              <= scoreFunction(heap.content[i])

\* C10's case: a remove has left a heap of at least 3 entries whose scores
\* are not all the same
C10_Witness ==
  /\ heap.op = "remove" /\ heap.thrown = "none"
  /\ Len(heap.content) >= 3
  /\ heap.content[1][2] # heap.content[3][2]

====
